---------------------------- MODULE Spec2Model ----------------------------
(***************************************************************************)
(* Model of app.py: a Flask image converter.  The state is the file system *)
(* under the working directory (the upload and the output folder), the     *)
(* clock, the uuids handed out, and, for the concurrent specification,     *)
(* the position of every in-flight /convert request and of the /cleanup    *)
(* sweep.                                                                  *)
(*                                                                         *)
(* Three specifications share the handlers' definitions:                   *)
(*   Spec      every request handler runs from entry to response in one    *)
(*             step (requests served one after the other);                 *)
(*   SpecConc  /convert and /cleanup are split at their file-system calls  *)
(*             and interleave (the server runs one thread per request);    *)
(*   SpecConv  one stored upload, drawn from a larger set of images, and   *)
(*             the conversions of it: the converter as a function.         *)
(*                                                                         *)
(* Python floats are modelled as exact rationals.  The third-party         *)
(* encoders are modelled by what the handlers rely on: which colour modes  *)
(* each container accepts, and what paste() does to a pixel.               *)
(***************************************************************************)
EXTENDS Integers, Sequences, FiniteSets, Bags, TLC

\* ------------------------------------------------------------- bounds
MaxUploads == 1      \* uploads that reach file.save (uuids handed out)
MaxConverts == 1     \* /convert requests served one after the other
MaxTicks == 2        \* clock advances
MaxFlights == 2      \* /convert requests of the concurrent specification
MaxSweeps == 1       \* /cleanup runs of the concurrent specification
MaxDim == 4          \* image width and height range over 1..MaxDim
NPix == 2            \* sampled pixels of an image

\* ---------------------------------------------------------- constants
UPLOAD_FOLDER == "uploads"
OUTPUT_FOLDER == "outputs"
ALLOWED_EXTENSIONS == {"png", "jpg", "jpeg", "gif", "bmp", "tiff", "webp"}
RETENTION == 3600    \* seconds, cleanup_files
PAGE_W == 612        \* reportlab letter, points
PAGE_H == 792
MAX_W == 6           \* inches, convert_to_docx
\* The clock advances by one retention window at a time, so that a file's
\* age is 0, exactly RETENTION (kept) or more (removed).
TickSeconds == RETENTION

\* ------------------------------------------------- exact rationals
Abs(x) == IF x < 0 THEN -x ELSE x

RECURSIVE GCD(_, _)
GCD(a, b) == IF b = 0 THEN a ELSE GCD(b, a % b)

\* n/d in lowest terms, d > 0
Rat(n, d) == LET g == GCD(Abs(n), d) IN [n |-> n \div g, d |-> d \div g]

RInt(k) == [n |-> k, d |-> 1]
RMul(p, q) == Rat(p.n * q.n, p.d * q.d)
RDiv(p, q) == Rat(p.n * q.d, p.d * q.n)
RSub(p, q) == Rat(p.n * q.d - q.n * p.d, p.d * q.d)
RAdd(p, q) == Rat(p.n * q.d + q.n * p.d, p.d * q.d)
RLe(p, q) == p.n * q.d <= q.n * p.d
RMin(p, q) == IF RLe(p, q) THEN p ELSE q
RZero == RInt(0)

\* ----------------------------------------------------------- strings
\* str.lower() and str.upper() on the strings the clients send
Lower(s) ==
  CASE s = "JPG" -> "jpg" [] s = "JPEG" -> "jpeg" [] s = "PNG" -> "png"
    [] s = "Pdf" -> "pdf" [] OTHER -> s

Upper(s) ==
  CASE s = "jpg" -> "JPG" [] s = "jpeg" -> "JPEG" [] s = "png" -> "PNG"
    [] s = "svg" -> "SVG" [] s = "pdf" -> "PDF" [] s = "Pdf" -> "PDF"
    [] s = "docx" -> "DOCX" [] s = "gif" -> "GIF" [] s = "txt" -> "TXT"
    [] OTHER -> s

\* '.' in filename and filename.rsplit('.', 1)[1].lower() in ALLOWED_EXTENSIONS
\* (ext = "" stands for a name without a dot)
allowed_file(ext) == ext # "" /\ Lower(ext) \in ALLOWED_EXTENSIONS

\* ------------------------------------------------------------ images
\* A decoded image: colour mode, size, and the pixel buffer sampled at
\* Len(px) positions; a pixel is a colour c (an RGB triple) and an alpha a.
\* Every transform below acts on each pixel on its own.
White == <<255, 255, 255>>
Black == <<0, 0, 0>>
NoImg == [mode |-> "none", size |-> <<0, 0>>, px |-> <<>>]
NoGeo == [x |-> RZero, y |-> RZero, w |-> RZero, h |-> RZero]

\* Stored bytes: kind "raster" (a decodable image, container enc), "junk"
\* (not an image), "svg", "pdf", "docx", "partial" (a write that broke off).
Bytes(kind, enc, img, geo) == [kind |-> kind, enc |-> enc, img |-> img, geo |-> geo]
Junk == Bytes("junk", "", NoImg, NoGeo)
Partial == Bytes("partial", "", NoImg, NoGeo)

\* Image.open: decodes raster bytes only
Decodable(b) == b.kind = "raster"

\* Modes the JPEG and the PNG writer accept (Image.save raises otherwise)
JpegModes == {"L", "RGB", "CMYK"}
PngModes == {"L", "LA", "P", "RGB", "RGBA"}
SaveAccepts(format_type, mode) ==
  IF format_type = "JPEG" THEN mode \in JpegModes ELSE mode \in PngModes

\* bg.paste(im, mask): with a mask each pixel is blended onto the background
\* by its alpha; without one the pixel's colour replaces the background.
Blend(c, bg, a) == [k \in 1..3 |-> (c[k] * a + bg[k] * (255 - a)) \div 255]
Paste(bg, p, masked) == IF masked THEN Blend(p.c, bg, p.a) ELSE p.c

Opaque(c) == [c |-> c, a |-> 255]

\* --------------------------------------------------------- the converter
Converted(b) == [ok |-> TRUE, bytes |-> b]
EncodeError == [ok |-> FALSE, bytes |-> Junk]

\* ImageConverter.convert_to_image
convert_to_image(img, format_type) ==
  IF format_type = "JPEG" /\ img.mode \in {"RGBA", "P"}
  THEN LET masked == img.mode = "RGBA"
           bg == [mode |-> "RGB", size |-> img.size,
                  px |-> [i \in 1..Len(img.px) |->
                            Opaque(Paste(White, img.px[i], masked))]]
       IN Converted(Bytes("raster", "JPEG", bg, NoGeo))
  ELSE IF SaveAccepts(format_type, img.mode)
       THEN Converted(Bytes("raster", format_type, img, NoGeo))
       ELSE EncodeError

\* ImageConverter.convert_to_svg: the image as PNG, in a canvas of its size
convert_to_svg(img) ==
  IF ~SaveAccepts("PNG", img.mode) THEN EncodeError
  ELSE Converted(Bytes("svg", "PNG", img,
                       [x |-> RZero, y |-> RZero,
                        w |-> RInt(img.size[1]), h |-> RInt(img.size[2])]))

\* Mutant of convert_to_pdf: the scale follows the larger of the two ratios
convert_to_pdf_max(img) ==
  IF ~SaveAccepts("PNG", img.mode) THEN EncodeError
  ELSE LET page_w == RInt(PAGE_W)
           page_h == RInt(PAGE_H)
           img_w == RInt(img.size[1])
           img_h == RInt(img.size[2])
           a == RDiv(page_w, img_w)
           b == RDiv(page_h, img_h)
           scale == RMul(IF RLe(a, b) THEN b ELSE a, Rat(8, 10))
           w == RMul(img_w, scale)
           h == RMul(img_h, scale)
           x == RDiv(RSub(page_w, w), RInt(2))
           y == RDiv(RSub(page_h, h), RInt(2))
       IN Converted(Bytes("pdf", "PNG", img, [x |-> x, y |-> y, w |-> w, h |-> h]))

\* ImageConverter.convert_to_pdf: scaled to 80% of the limiting page side
convert_to_pdf(img) ==
  IF ~SaveAccepts("PNG", img.mode) THEN EncodeError
  ELSE LET page_w == RInt(PAGE_W)
           page_h == RInt(PAGE_H)
           img_w == RInt(img.size[1])
           img_h == RInt(img.size[2])
           scale == RMul(RMin(RDiv(page_w, img_w), RDiv(page_h, img_h)), Rat(8, 10))
           w == RMul(img_w, scale)
           h == RMul(img_h, scale)
           x == RDiv(RSub(page_w, w), RInt(2))
           y == RDiv(RSub(page_h, h), RInt(2))
       IN Converted(Bytes("pdf", "PNG", img, [x |-> x, y |-> y, w |-> w, h |-> h]))

\* Mutant of convert_to_docx: the comparison of width and height reversed
convert_to_docx_reversed(img) ==
  IF ~SaveAccepts("PNG", img.mode) THEN EncodeError
  ELSE LET img_w == RInt(img.size[1])
           img_h == RInt(img.size[2])
           max_w == RInt(MAX_W)
           wide == img.size[1] < img.size[2]
           width == IF wide THEN max_w ELSE RMul(RDiv(img_w, img_h), max_w)
           height == IF wide THEN RMul(RDiv(img_h, img_w), max_w) ELSE max_w
       IN Converted(Bytes("docx", "PNG", img,
                          [x |-> RZero, y |-> RZero, w |-> width, h |-> height]))

\* ImageConverter.convert_to_docx: displayed width and height, in inches
convert_to_docx(img) ==
  IF ~SaveAccepts("PNG", img.mode) THEN EncodeError
  ELSE LET img_w == RInt(img.size[1])
           img_h == RInt(img.size[2])
           max_w == RInt(MAX_W)
           wide == img.size[1] > img.size[2]
           width == IF wide THEN max_w ELSE RMul(RDiv(img_w, img_h), max_w)
           height == IF wide THEN RMul(RDiv(img_h, img_w), max_w) ELSE max_w
       IN Converted(Bytes("docx", "PNG", img,
                          [x |-> RZero, y |-> RZero, w |-> width, h |-> height]))

\* convert_image's dispatch on fmt.upper()
SupportedFormats == {"JPG", "JPEG", "PNG", "SVG", "PDF", "DOCX"}
Dispatch(img, fmt_upper) ==
  CASE fmt_upper \in {"JPG", "JPEG"} -> convert_to_image(img, "JPEG")
    [] fmt_upper = "PNG" -> convert_to_image(img, "PNG")
    [] fmt_upper = "SVG" -> convert_to_svg(img)
    [] fmt_upper = "PDF" -> convert_to_pdf(img)
    [] fmt_upper = "DOCX" -> convert_to_docx(img)
    [] OTHER -> EncodeError

\* ------------------------------------------------------- paths and files
\* A client's file name: directory segments, then stem "." ext.  A stored
\* file's location: its directory below the working directory, stem, ext.
Name(dirs, stem, ext) == [dirs |-> dirs, stem |-> stem, ext |-> ext]
NoName == Name(<<>>, 0, "")
Loc(dir, stem, ext) == [dir |-> dir, stem |-> stem, ext |-> ext]
NoLoc == Loc(<<>>, 0, "")

\* The directory a segment list leads to: ".." steps to the parent
RECURSIVE Norm(_, _)
Norm(stack, segs) ==
  IF segs = <<>> THEN stack
  ELSE LET s == Head(segs)
           up == stack # <<>> /\ stack[Len(stack)] # ".."
       IN Norm(IF s = ".." /\ up THEN SubSeq(stack, 1, Len(stack) - 1)
               ELSE Append(stack, s), Tail(segs))

\* os.path.join(folder, name), as the file system resolves it
Resolve(folder, name) == Loc(Norm(<<>>, <<folder>> \o name.dirs), name.stem, name.ext)

\* Mutant of OutName: the output is named after the format alone
OutName_shared(filename, fmt) == Name(filename.dirs, 0, Lower(fmt))

\* f"{filename.rsplit('.', 1)[0]}.{fmt.lower()}"
OutName(filename, fmt) == Name(filename.dirs, filename.stem, Lower(fmt))

InFolder(loc, folder) == loc.dir = <<folder>>

\* A stored entry: a regular file with bytes, or a directory; ctime as
\* os.path.getctime reads it; by is the handler that wrote it last (history)
File(bytes, t, by) == [isfile |-> TRUE, bytes |-> bytes, ctime |-> t, by |-> by]
Dir(t) == [isfile |-> FALSE, bytes |-> Junk, ctime |-> t, by |-> "none"]

\* open(path, 'wb') ... close(): the file's bytes are replaced
WriteFile(files, loc, bytes, t, by) ==
  [l \in DOMAIN files \cup {loc} |-> IF l = loc THEN File(bytes, t, by) ELSE files[l]]

\* os.remove
RemoveFile(files, loc) == [l \in DOMAIN files \ {loc} |-> files[l]]

\* Image.open(path): the decoded image, or an exception
CanOpen(files, loc) ==
  loc \in DOMAIN files /\ files[loc].isfile /\ Decodable(files[loc].bytes)

\* ------------------------------------------------------------ the state
VARIABLES
  fs,       \* the stored entries: location -> File or Dir
  now,      \* time.time()
  uuid,     \* uuids handed out so far (uuid4 never repeats: a counter)
  invalid,  \* history: the upload paths whose bytes Image.open rejected
  nConv,    \* /convert requests served so far
  last,     \* the request served last and its response
  conv,     \* SpecConc: the in-flight /convert requests
  sweep     \* SpecConc: the /cleanup run in progress

vars == <<fs, now, uuid, invalid, nConv, last, conv, sweep>>

Resp(op, kind) == [op |-> op, kind |-> kind]

\* ----------------------------------------------------------- /upload
\* Mutant of RunUpload: the rejected file is not removed
RunUpload_keeps(files, t, id, c) ==
  IF ~c.part THEN [files |-> files, kind |-> "no_file_part", out |-> NoLoc]
  ELSE IF ~c.named THEN [files |-> files, kind |-> "no_file_selected", out |-> NoLoc]
  ELSE IF ~allowed_file(c.ext) THEN [files |-> files, kind |-> "invalid_type", out |-> NoLoc]
  ELSE LET filename == Name(<<>>, id, Lower(c.ext))
           path == Resolve(UPLOAD_FOLDER, filename)
           saved == WriteFile(files, path, c.bytes, t, "upload")
       IN [files |-> saved,
           kind |-> IF CanOpen(saved, path) THEN "uploaded" ELSE "invalid_image",
           out |-> path]

\* upload_file on the client's file c: [part, named, ext, bytes]; id is the
\* fresh uuid
RunUpload(files, t, id, c) ==
  IF ~c.part THEN [files |-> files, kind |-> "no_file_part", out |-> NoLoc]
  ELSE IF ~c.named THEN [files |-> files, kind |-> "no_file_selected", out |-> NoLoc]
  ELSE IF ~allowed_file(c.ext) THEN [files |-> files, kind |-> "invalid_type", out |-> NoLoc]
  ELSE LET filename == Name(<<>>, id, Lower(c.ext))
           path == Resolve(UPLOAD_FOLDER, filename)
           saved == WriteFile(files, path, c.bytes, t, "upload")
       IN IF CanOpen(saved, path)
          THEN [files |-> saved, kind |-> "uploaded", out |-> path]
          ELSE [files |-> RemoveFile(saved, path), kind |-> "invalid_image", out |-> path]

upload_file(c) ==
  /\ uuid < MaxUploads
  /\ LET r == RunUpload(fs, now, uuid + 1, c)
     IN /\ fs' = r.files
        /\ uuid' = IF r.out = NoLoc THEN uuid ELSE uuid + 1
        /\ invalid' = IF r.kind = "invalid_image" THEN invalid \cup {r.out} ELSE invalid
        /\ last' = Resp("upload", r.kind)
  /\ UNCHANGED <<now, nConv, conv, sweep>>

\* ---------------------------------------------------------- /convert
\* Mutant of ConvertOpened: a format that is not recognised is written as PNG
ConvertOpened_default(files, t, img, out_path, fmt, wfail) ==
  LET fmt_upper == Upper(fmt)
      r == IF fmt_upper \in SupportedFormats THEN Dispatch(img, fmt_upper)
           ELSE convert_to_image(img, "PNG")
  IN IF ~r.ok THEN [files |-> files, kind |-> "failed"]
     ELSE IF wfail THEN [files |-> WriteFile(files, out_path, Partial, t, "convert"),
                         kind |-> "failed"]
     ELSE [files |-> WriteFile(files, out_path, r.bytes, t, "convert"), kind |-> "success"]

\* convert_image from the decoded image on: dispatch, encode, write.  An
\* encoder that rejects the image raises before out_path is written; wfail
\* is the writer failing part-way (an IOError), which leaves what it wrote.
ConvertOpened(files, t, img, out_path, fmt, wfail) ==
  LET fmt_upper == Upper(fmt)
      r == Dispatch(img, fmt_upper)
  IN IF fmt_upper \notin SupportedFormats THEN [files |-> files, kind |-> "unsupported"]
     ELSE IF ~r.ok THEN [files |-> files, kind |-> "failed"]
     ELSE IF wfail THEN [files |-> WriteFile(files, out_path, Partial, t, "convert"), kind |-> "failed"]
     ELSE [files |-> WriteFile(files, out_path, r.bytes, t, "convert"), kind |-> "success"]

\* convert_image on the request req: [filename, fmt]
RunConvert(files, t, req, wfail) ==
  IF req.filename = NoName \/ req.fmt = ""
  THEN [files |-> files, kind |-> "missing", src |-> NoLoc, out |-> NoLoc]
  ELSE LET in_path == Resolve(UPLOAD_FOLDER, req.filename)
           out_path == Resolve(OUTPUT_FOLDER, OutName(req.filename, req.fmt))
       IN IF in_path \notin DOMAIN files
          THEN [files |-> files, kind |-> "not_found", src |-> in_path, out |-> NoLoc]
          ELSE IF ~CanOpen(files, in_path)
          THEN [files |-> files, kind |-> "failed", src |-> in_path, out |-> out_path]
          ELSE LET r == ConvertOpened(files, t, files[in_path].bytes.img,
                                      out_path, req.fmt, wfail)
               IN [files |-> r.files, kind |-> r.kind, src |-> in_path, out |-> out_path]

convert_image(req, wfail) ==
  /\ nConv < MaxConverts
  /\ LET r == RunConvert(fs, now, req, wfail)
     IN /\ fs' = r.files
        /\ last' = Resp("convert", r.kind)
  /\ nConv' = nConv + 1
  /\ UNCHANGED <<now, uuid, invalid, conv, sweep>>

\* --------------------------------------------------------- /download
download_file(filename) ==
  /\ LET path == Resolve(OUTPUT_FOLDER, filename)
     IN last' = Resp("download", IF path \in DOMAIN fs THEN "served" ELSE "not_found")
  /\ UNCHANGED <<fs, now, uuid, invalid, nConv, conv, sweep>>

\* ---------------------------------------------------------- /cleanup
\* Mutant of Expired: a file of age exactly 3600 s counts as old
Expired_inclusive(files, loc, t) == files[loc].isfile /\ t - files[loc].ctime >= RETENTION

\* os.path.isfile(fp) and now - os.path.getctime(fp) > 3600
Expired(files, loc, t) == files[loc].isfile /\ t - files[loc].ctime > RETENTION

\* the inner loop over one folder's entries
SweepFolder(files, folder, t) ==
  [l \in {m \in DOMAIN files : ~(InFolder(m, folder) /\ Expired(files, m, t))} |-> files[l]]

RunCleanup(files, t) == SweepFolder(SweepFolder(files, UPLOAD_FOLDER, t), OUTPUT_FOLDER, t)

cleanup_files ==
  /\ fs' = RunCleanup(fs, now)
  /\ last' = Resp("cleanup", "cleaned")
  /\ UNCHANGED <<now, uuid, invalid, nConv, conv, sweep>>

\* ------------------------------------------------------------ the clock
\* One step is a whole retention window: far longer than a request takes,
\* so none is in flight across it.
Tick ==
  /\ now < MaxTicks * TickSeconds
  /\ conv = EmptyBag
  /\ sweep.pc = "idle"
  /\ now' = now + TickSeconds
  /\ last' = Resp("tick", "")
  /\ UNCHANGED <<fs, uuid, invalid, nConv, conv, sweep>>

\* ------------------------------------------------------------- inputs
\* Sample images of the sequential and the concurrent specification
RgbImage == [mode |-> "RGB", size |-> <<4, 2>>, px |-> <<Opaque(Black)>>]
LaImage == [mode |-> "LA", size |-> <<2, 2>>, px |-> <<[c |-> Black, a |-> 0]>>]
RgbBytes == Bytes("raster", "PNG", RgbImage, NoGeo)
LaBytes == Bytes("raster", "PNG", LaImage, NoGeo)

ClientFile(part, named, ext, bytes) ==
  [part |-> part, named |-> named, ext |-> ext, bytes |-> bytes]
ClientFiles ==
  {ClientFile(FALSE, FALSE, "", Junk), ClientFile(TRUE, FALSE, "", Junk),
   ClientFile(TRUE, TRUE, "", Junk), ClientFile(TRUE, TRUE, "txt", Junk)}
    \cup {ClientFile(TRUE, TRUE, "png", RgbBytes), ClientFile(TRUE, TRUE, "JPG", LaBytes),
          ClientFile(TRUE, TRUE, "png", Junk)}

Stems == 1..MaxUploads
PlainNames == {Name(<<>>, s, e) : s \in Stems, e \in {"png", "jpg"}}
TraversalNames == {Name(<<"..", d>>, 1, "png") : d \in {UPLOAD_FOLDER, OUTPUT_FOLDER}}
Formats == {"JPG", "png", "Pdf", "gif"}
Request(filename, fmt) == [filename |-> filename, fmt |-> fmt]
Requests ==
  {Request(NoName, "png")} \cup {Request(f, "") : f \in PlainNames}
    \cup {Request(f, m) : f \in PlainNames \cup TraversalNames, m \in Formats}

\* ------------------------------------------- /convert, step by step
\* An in-flight request: its inputs, the paths of lines 135-139 and the
\* image once opened.  expect is history: the response the request would
\* get if served in one piece when it arrived.  conv is the bag of the
\* requests in flight; a request leaves it with its response.
Flight(pc, req, wfail, img, expect) ==
  [pc |-> pc, req |-> req, wfail |-> wfail,
   in_path |-> Resolve(UPLOAD_FOLDER, req.filename),
   out_path |-> Resolve(OUTPUT_FOLDER, OutName(req.filename, req.fmt)),
   img |-> img, expect |-> expect]

InFlight == BagToSet(conv)
Enter(q) == conv (+) SetToBag({q})
Leave(q) == conv (-) SetToBag({q})

\* lines 130-139: read the request, check that the source exists
ConvCheck(req, wfail) ==
  /\ nConv < MaxFlights
  /\ nConv' = nConv + 1
  /\ LET expect == RunConvert(fs, now, req, wfail).kind
     IN IF req.filename = NoName \/ req.fmt = ""
        THEN conv' = conv /\ last' = Resp("convert", "missing")
        ELSE IF Resolve(UPLOAD_FOLDER, req.filename) \notin DOMAIN fs
        THEN conv' = conv /\ last' = Resp("convert", "not_found")
        ELSE /\ conv' = Enter(Flight("open", req, wfail, NoImg, expect))
             /\ last' = last
  /\ UNCHANGED <<fs, now, uuid, invalid, sweep>>

\* line 141: ImageConverter(in_path) opens the file
ConvOpen(q) ==
  /\ q.pc = "open"
  /\ IF CanOpen(fs, q.in_path)
     THEN /\ conv' = Leave(q) (+) SetToBag({Flight("encode", q.req, q.wfail,
                                                   fs[q.in_path].bytes.img, q.expect)})
          /\ last' = last
     ELSE /\ conv' = Leave(q)
          /\ last' = Resp("convert", "failed")
  /\ UNCHANGED <<fs, now, uuid, invalid, nConv, sweep>>

\* lines 142-154: dispatch, encode and write out_path
ConvEncode(q) ==
  /\ q.pc = "encode"
  /\ LET r == ConvertOpened(fs, now, q.img, q.out_path, q.req.fmt, q.wfail)
     IN /\ fs' = r.files
        /\ IF r.kind = "success"
           THEN /\ conv' = Leave(q) (+) SetToBag({Flight("written", q.req, q.wfail,
                                                         NoImg, q.expect)})
                /\ last' = last
           ELSE /\ conv' = Leave(q)
                /\ last' = Resp("convert", r.kind)
  /\ UNCHANGED <<now, uuid, invalid, nConv, sweep>>

\* line 155: the success response leaves the handler
ConvRespond(q) ==
  /\ q.pc = "written"
  /\ conv' = Leave(q)
  /\ last' = Resp("convert", "success")
  /\ UNCHANGED <<fs, now, uuid, invalid, nConv, sweep>>

\* ------------------------------------------- /cleanup, step by step
\* runs counts the sweeps started (history)
Sweeping(pc, t, folder, todo, runs) ==
  [pc |-> pc, t |-> t, folder |-> folder, todo |-> todo, runs |-> runs]
Idle(runs) == Sweeping("idle", 0, "", {}, runs)

\* os.listdir(folder)
ListDir(files, folder) == {l \in DOMAIN files : InFolder(l, folder)}

\* lines 170-172: read the clock, list the upload folder
SweepStart ==
  /\ sweep.pc = "idle"
  /\ sweep.runs < MaxSweeps
  /\ sweep' = Sweeping("scan", now, UPLOAD_FOLDER, ListDir(fs, UPLOAD_FOLDER), sweep.runs + 1)
  /\ UNCHANGED <<fs, now, uuid, invalid, nConv, last, conv>>

\* lines 173-175: one listed entry
SweepEntry(l) ==
  /\ sweep.pc = "scan"
  /\ l \in sweep.todo
  /\ fs' = IF l \in DOMAIN fs /\ Expired(fs, l, sweep.t) THEN RemoveFile(fs, l) ELSE fs
  /\ sweep' = [sweep EXCEPT !.todo = @ \ {l}]
  /\ UNCHANGED <<now, uuid, invalid, nConv, last, conv>>

\* the folder is done: list the output folder, or respond
SweepNext ==
  /\ sweep.pc = "scan"
  /\ sweep.todo = {}
  /\ sweep' = IF sweep.folder = UPLOAD_FOLDER
              THEN Sweeping("scan", sweep.t, OUTPUT_FOLDER, ListDir(fs, OUTPUT_FOLDER),
                            sweep.runs)
              ELSE Idle(sweep.runs)
  /\ UNCHANGED <<fs, now, uuid, invalid, nConv, last, conv>>

\* --------------------------------------------------- the specifications
\* Both folders exist (os.makedirs at import, exist_ok); the output folder
\* holds a directory left by an earlier deployment and no file.
OldDir == Loc(<<OUTPUT_FOLDER>>, 0, "d")
Init ==
  /\ fs = [l \in {OldDir} |-> Dir(0)]
  /\ now = 0
  /\ uuid = 0
  /\ invalid = {}
  /\ nConv = 0
  /\ last = Resp("none", "")
  /\ conv = EmptyBag
  /\ sweep = Idle(0)

Next ==
  \/ \E c \in ClientFiles : upload_file(c)
  \/ \E req \in Requests, wfail \in BOOLEAN : convert_image(req, wfail)
  \/ \E f \in PlainNames \cup TraversalNames : download_file(f)
  \/ cleanup_files
  \/ Tick

Spec == Init /\ [][Next]_vars

\* One thread per request: /convert and /cleanup interleave at their
\* file-system calls.  The upload folder holds two stored uploads.
ConcNames == {Name(<<>>, 1, "png"), Name(<<>>, 2, "png")}
ConcRequests == {Request(f, m) : f \in ConcNames, m \in {"JPG", "png"}}

InitConc ==
  /\ fs = [l \in {OldDir} \cup {Resolve(UPLOAD_FOLDER, f) : f \in ConcNames} |->
             IF l = OldDir THEN Dir(0) ELSE File(RgbBytes, 0, "upload")]
  /\ now = 0
  /\ uuid = Cardinality(ConcNames)
  /\ invalid = {}
  /\ nConv = 0
  /\ last = Resp("upload", "uploaded")
  /\ conv = EmptyBag
  /\ sweep = Idle(0)

NextConc ==
  \/ Tick
  \/ \E req \in ConcRequests : ConvCheck(req, FALSE)
  \/ \E q \in InFlight : ConvOpen(q)
  \/ \E q \in InFlight : ConvEncode(q)
  \/ \E q \in InFlight : ConvRespond(q)
  \/ SweepStart
  \/ \E l \in sweep.todo : SweepEntry(l)
  \/ SweepNext

SpecConc == InitConc /\ [][NextConc]_vars

\* The converter as a function: one stored upload, its image drawn from
\* sizes 1..MaxDim squared (and the sizes the documentation names) and from
\* every colour mode with every sampled pixel buffer, and the conversions
\* of it to every format.
Sizes == ((1..MaxDim) \X (1..MaxDim)) \cup {<<400, 200>>, <<100, 50>>, <<612, 792>>}
Modes == {"RGB", "RGBA", "L", "LA", "P", "CMYK"}
Alphas(mode) == IF mode \in {"RGBA", "LA", "P"} THEN {0, 128, 255} ELSE {255}
Pixels(mode) == {[c |-> c, a |-> a] : c \in {Black, White}, a \in Alphas(mode)}
ConvImages ==
  {[mode |-> "RGB", size |-> z, px |-> <<Opaque(Black)>>] : z \in Sizes}
    \cup UNION {{[mode |-> m, size |-> <<2, 1>>, px |-> b] : b \in [1..NPix -> Pixels(m)]}
                : m \in Modes}
AllFormats == {"JPG", "JPEG", "png", "svg", "Pdf", "docx", "gif"}
TheUpload == Name(<<>>, 1, "png")

InitConv ==
  /\ \E img \in ConvImages :
       fs = WriteFile(<<>>, Resolve(UPLOAD_FOLDER, TheUpload),
                      Bytes("raster", "PNG", img, NoGeo), 0, "upload")
  /\ now = 0
  /\ uuid = 1
  /\ invalid = {}
  /\ nConv = 0
  /\ last = Resp("upload", "uploaded")
  /\ conv = EmptyBag
  /\ sweep = Idle(0)

NextConv == \E m \in AllFormats : convert_image(Request(TheUpload, m), FALSE)

SpecConv == InitConv /\ [][NextConv]_vars

\* ------------------------------------------------------------ properties
\* What a folder holds: each entry's bytes
View(files, folder) ==
  [l \in {m \in DOMAIN files : InFolder(m, folder)} |-> files[l].bytes]

\* The locations a step creates, rewrites or removes
Touched(before, after) ==
  {l \in DOMAIN before \cup DOMAIN after :
     l \notin DOMAIN before \/ l \notin DOMAIN after \/ before[l] # after[l]}

ErrorKinds == {"missing", "not_found", "unsupported", "failed"}

\* The file a request names is an upload: stored by /upload in the upload
\* folder and not rewritten since
NamesUpload(files, req) ==
  LET in_path == Resolve(UPLOAD_FOLDER, req.filename)
  IN /\ req.filename # NoName
     /\ in_path \in DOMAIN files
     /\ InFolder(in_path, UPLOAD_FOLDER)
     /\ files[in_path].by = "upload"

\* C1 (as claimed): a /convert request that ends in an error response leaves
\* the output folder's files and their contents as they were before it.
C1_FailureLeavesOutputs ==
  [][(nConv' = nConv + 1 /\ last'.kind \in ErrorKinds)
       => View(fs', OUTPUT_FOLDER) = View(fs, OUTPUT_FOLDER)]_vars

\* The requests that name a file of the upload folder and give a format
\* that is none of the six, each with the path of its source
UnsupportedRequests ==
  {u \in {[req |-> req, in_path |-> Resolve(UPLOAD_FOLDER, req.filename)] :
            req \in {r \in Requests : r.filename # NoName /\ r.fmt # ""}} :
     /\ Upper(u.req.fmt) \notin {"JPG", "JPEG", "PNG", "SVG", "PDF", "DOCX"}
     /\ InFolder(u.in_path, UPLOAD_FOLDER)}

\* C2: a /convert request that names an existing upload and gives a format
\* other than JPG, JPEG, PNG, SVG, PDF, DOCX (in any case) is answered
\* 'Unsupported format', and no stored file is written, changed or removed.
C2_UnsupportedFormat ==
  [][nConv' = nConv + 1 =>
       \A u \in UnsupportedRequests, wfail \in BOOLEAN :
         (/\ u.in_path \in DOMAIN fs
          /\ fs[u.in_path].by = "upload"
          /\ convert_image(u.req, wfail))
         => (last'.kind = "unsupported" /\ fs' = fs)]_vars

C2_Witness ==
  /\ last = Resp("convert", "unsupported")
  /\ \E l \in DOMAIN fs : InFolder(l, UPLOAD_FOLDER) /\ fs[l].by = "upload"

\* The upload path the next uuid gives a client file
UploadPath(c) == Resolve(UPLOAD_FOLDER, Name(<<>>, uuid + 1, Lower(c.ext)))

\* No stored file carries the stem of loc
NoTrace(files, loc) == \A l \in DOMAIN files : l.stem # loc.stem

RejectedAtOnce ==
  \A c \in ClientFiles :
    (/\ uuid' = uuid + 1
     /\ c.part /\ c.named /\ allowed_file(c.ext) /\ ~Decodable(c.bytes)
     /\ upload_file(c))
    => /\ last' = Resp("upload", "invalid_image")
       /\ UploadPath(c) \in invalid'
       /\ NoTrace(fs', UploadPath(c))

RejectedStaysGone ==
  \A loc \in invalid :
    /\ NoTrace(fs, loc)
    /\ \A m \in Formats, wfail \in BOOLEAN :
         LET r == RunConvert(fs, now, Request(Name(<<>>, loc.stem, loc.ext), m), wfail)
         IN r.kind = "not_found" /\ r.files = fs

\* C3: an upload with an allowed extension whose bytes do not decode is
\* answered with an error, its file is gone from the upload folder and no
\* output exists for it; from then on every /convert naming it is answered
\* 'File not found' and writes nothing.
C3_InvalidUploadRemoved == [][RejectedAtOnce]_vars /\ []RejectedStaysGone

C3_Witness == invalid # {} /\ last = Resp("convert", "not_found")

\* C8: /cleanup removes exactly the regular files of the two folders whose
\* age (now - ctime) exceeds 3600 s; files of age 3600 s or less, and
\* entries that are not files, stay as they are, and nothing is created.
C8_CleanupExact ==
  [][cleanup_files =>
       /\ DOMAIN fs' \subseteq DOMAIN fs
       /\ \A l \in DOMAIN fs :
            IF /\ InFolder(l, UPLOAD_FOLDER) \/ InFolder(l, OUTPUT_FOLDER)
               /\ fs[l].isfile
               /\ now - fs[l].ctime > 3600
            THEN l \notin DOMAIN fs'
            ELSE l \in DOMAIN fs' /\ fs'[l] = fs[l]]_vars

\* after a sweep: a file of age exactly 3600 s and the directory are kept,
\* and an upload older than that is gone
C8_Witness ==
  /\ last = Resp("cleanup", "cleaned")
  /\ \E l \in DOMAIN fs : fs[l].isfile /\ now - fs[l].ctime = 3600
  /\ \E l \in DOMAIN fs : ~fs[l].isfile
  /\ \E s \in 1..uuid :
       \A l \in DOMAIN fs \cup invalid : ~(l.stem = s /\ InFolder(l, UPLOAD_FOLDER))

\* C10 (as claimed): every /convert reads its source inside the upload
\* folder and creates or rewrites files only inside the output folder (so
\* never a file of the upload folder), and /download serves only files
\* inside the output folder.
C10_PathConfinement ==
  [][/\ nConv' = nConv + 1
          => \A l \in Touched(fs, fs') : InFolder(l, OUTPUT_FOLDER)
     /\ \A f \in PlainNames \cup TraversalNames :
          (last'.kind = "served" /\ download_file(f))
          => InFolder(Resolve(OUTPUT_FOLDER, f), OUTPUT_FOLDER)]_vars

\* C4 (as claimed): a JPEG conversion of an image whose mode has an alpha
\* channel or a palette (RGBA, LA, P) succeeds, its output is RGB (no alpha)
\* and every pixel that was fully transparent in the source is pure white.
C4_JpegComposite ==
  [][\A m \in {"JPG", "JPEG"} :
       LET src == fs[Resolve(UPLOAD_FOLDER, TheUpload)].bytes.img
           out_path == Resolve(OUTPUT_FOLDER, OutName(TheUpload, m))
       IN (/\ nConv' = nConv + 1
           /\ src.mode \in {"RGBA", "LA", "P"}
           /\ convert_image(Request(TheUpload, m), FALSE))
          => /\ last'.kind = "success"
             /\ out_path \in DOMAIN fs'
             /\ fs'[out_path].bytes.img.mode = "RGB"
             /\ \A i \in 1..Len(src.px) :
                  src.px[i].a = 0
                    => fs'[out_path].bytes.img.px[i] = [c |-> <<255, 255, 255>>, a |-> 255]]_vars

REq(p, q) == p.n * q.d = q.n * p.d

\* C5: a PDF's image is drawn at (w*s, h*s) with s = min(612/w, 792/h) * 0.8,
\* at x = (612 - w*s)/2, y = (792 - h*s)/2; it lies inside the 612 x 792
\* page, keeps the aspect ratio, and has equal margins on opposite sides.
C5_PdfLayout ==
  \A l \in DOMAIN fs :
    fs[l].bytes.kind = "pdf" =>
      LET w == fs[l].bytes.img.size[1]
          h == fs[l].bytes.img.size[2]
          g == fs[l].bytes.geo
          s == IF 612 * h <= 792 * w THEN Rat(612 * 8, w * 10) ELSE Rat(792 * 8, h * 10)
      IN /\ w >= 1 /\ h >= 1
         /\ REq(g.w, Rat(w * s.n, s.d)) /\ REq(g.h, Rat(h * s.n, s.d))
         /\ REq(RAdd(RAdd(g.x, g.x), g.w), RInt(612))
         /\ REq(RAdd(RAdd(g.y, g.y), g.h), RInt(792))
         /\ RLe(RZero, g.x) /\ RLe(RZero, g.y)
         /\ RLe(RAdd(g.x, g.w), RInt(612)) /\ RLe(RAdd(g.y, g.h), RInt(792))
         /\ g.w.n * g.h.d * h = g.h.n * g.w.d * w
         /\ REq(g.x, RSub(RInt(612), RAdd(g.x, g.w)))
         /\ REq(g.y, RSub(RInt(792), RAdd(g.y, g.h)))

\* a PDF of a tall image (limited by the page height) and of a wide one
C5_Witness ==
  /\ last = Resp("convert", "success")
  /\ \E l \in DOMAIN fs :
       /\ fs[l].bytes.kind = "pdf"
       /\ fs[l].bytes.img.size \in {<<1, 4>>, <<400, 200>>}

\* C6: a DOCX shows the image 6 in wide and 6 in * (h/w) high if w > h, and
\* otherwise (w = h included) 6 in high and 6 in * (w/h) wide; the larger
\* side is exactly 6 in, no side exceeds 6 in, and 400 x 200 gives 6 x 3.
C6_DocxLayout ==
  \A l \in DOMAIN fs :
    fs[l].bytes.kind = "docx" =>
      LET w == fs[l].bytes.img.size[1]
          h == fs[l].bytes.img.size[2]
          g == fs[l].bytes.geo
      IN /\ w > h => (g.w = RInt(6) /\ g.h.n * w = 6 * h * g.h.d)
         /\ w <= h => (g.h = RInt(6) /\ g.w.n * h = 6 * w * g.w.d)
         /\ RLe(g.w, RInt(6)) /\ RLe(g.h, RInt(6))
         /\ g.w = RInt(6) \/ g.h = RInt(6)
         /\ (w = 400 /\ h = 200) => (g.w = RInt(6) /\ g.h = RInt(3))

C6_Witness ==
  /\ last = Resp("convert", "success")
  /\ \E l \in DOMAIN fs :
       /\ fs[l].bytes.kind = "docx"
       /\ fs[l].bytes.img.size \in {<<400, 200>>, <<3, 3>>}

\* With no other request in flight, serving a request and then the same
\* request again, at the same clock reading, gives the same response and
\* leaves every stored file as the first time left it
Idempotent ==
  conv = EmptyBag =>
    \A f \in ConcNames, m \in Formats, wfail \in BOOLEAN :
      \A once \in {RunConvert(fs, now, Request(f, m), wfail)} :
        \A twice \in {RunConvert(once.files, now, Request(f, m), wfail)} :
          twice.kind = once.kind /\ twice.files = once.files

SameRequest(r1, r2) ==
  /\ Resolve(UPLOAD_FOLDER, r1.filename) = Resolve(UPLOAD_FOLDER, r2.filename)
  /\ Upper(r1.fmt) = Upper(r2.fmt)

\* A step of request q touches no output of a request for another upload
\* or another format
Independent ==
  \A q \in InFlight :
    ConvEncode(q)
    => \A l \in Touched(fs, fs') :
         \A req \in ConcRequests :
           (NamesUpload(fs, req)
              /\ l = Resolve(OUTPUT_FOLDER, OutName(req.filename, req.fmt)))
           => SameRequest(req, q.req)

\* C7: conversions are idempotent (the same request served twice gives the
\* response and the folders of serving it once) and independent (run in any
\* interleaving, a conversion never creates, rewrites or removes the output
\* of a request for a different upload or format).
C7_IdempotentIndependent == []Idempotent /\ [][Independent]_vars

\* two requests for different uploads in flight, both having written
C7_Witness ==
  \E p, q \in InFlight :
    /\ p.pc = "written" /\ q.pc = "written"
    /\ p.in_path # q.in_path
    /\ p.out_path \in DOMAIN fs /\ q.out_path \in DOMAIN fs

\* C9 (as claimed): a /convert request whose source existed when it checked
\* for it ends, whatever /cleanup does meanwhile, with the response it would
\* get without the sweep, and a reported success has its output in place.
C9_SweepHarmless ==
  [][\A q \in InFlight :
       (/\ conv' = Leave(q)
        /\ ConvOpen(q) \/ ConvEncode(q) \/ ConvRespond(q))
       => /\ last'.kind = q.expect
          /\ last'.kind = "success" => q.out_path \in DOMAIN fs']_vars
=============================================================================
